---- MODULE Spec2Model ----
(***************************************************************************)
(* Model of etl_connector.py: the CISA KEV extract / transform / load      *)
(* pipeline (class CISAKEVETLConnector and main).                          *)
(*                                                                         *)
(* Five specifications share the definitions below:                        *)
(*   Spec      the process: main -> run_etl_pipeline -> cleanup, run       *)
(*             repeatedly against one persistent collection;               *)
(*   SpecRun   one run of the process on an empty collection;              *)
(*   SpecLoad  arbitrary sequences of load_data calls on the collection;   *)
(*   SpecRisk  _calculate_risk_level applied to enumerated inputs;         *)
(*   SpecTransform  transform_data applied to enumerated lists.            *)
(***************************************************************************)
EXTENDS Integers, Sequences, FiniteSets, TLC

VARIABLES
    \* ---- the MongoDB collection (persists across process runs)
    coll,             \* set of stored documents [oid, doc]
    indexes,          \* set of index names that exist on the collection
    next_oid,         \* next ObjectId the server hands out on an insert
    \* ---- the connector object and the process around it
    pc,               \* position of the process in main / run_etl_pipeline
    run,              \* number of process invocations started so far
    clock,            \* wall clock (datetime.now()), in days
    mongo_client,     \* self.mongo_client: "None", "open" or "closed"
    collection,       \* self.collection is not None
    session,          \* self.session: "open" or "closed"
    raw_data,         \* local raw_data of run_etl_pipeline
    transformed_data, \* local transformed_data of run_etl_pipeline
    success,          \* value returned by run_etl_pipeline
    exit_code,        \* argument of sys.exit, NoExit before it is called
    trace,            \* external operations of this run, in order
    http,             \* the responses session.get produced in this run
    coll_at_start,    \* the collection when this run started
    idx_at_start,     \* the indexes when this run started
    \* ---- the last load_data call and the last _calculate_risk_level call
    last,             \* the connector's last load_data call: input and outcome
    repeat,           \* that call repeated the one before it
    rk                \* inputs and result of _calculate_risk_level

vars == <<coll, indexes, next_oid, pc, run, clock, mongo_client, collection,
          session, raw_data, transformed_data, success, exit_code, trace,
          http, coll_at_start, idx_at_start, last, repeat, rk>>

storeVars == <<coll, indexes, next_oid>>
procVars  == <<pc, run, clock, mongo_client, collection, session, raw_data,
               transformed_data, success, exit_code, trace, http,
               coll_at_start, idx_at_start>>

-----------------------------------------------------------------------------
(* Bounds of the model *)

MaxFeed  == 2   \* longest 'vulnerabilities' array a response carries
MaxBatch == 2   \* longest batch handed to load_data directly
MaxRuns  == 2   \* process invocations
MaxRaw   == 3   \* longest list handed to transform_data directly

-----------------------------------------------------------------------------
(* Python values *)

Missing == "<missing>"    \* key absent from a dict
NoOid   == 0              \* result.upserted_id is None
NoExit  == -1             \* sys.exit not called yet

\* Strings whose characters matter are tuples of one-character strings.
UpperChars == <<"A","B","C","D","E","F","G","H","I","J","K","L","M",
                "N","O","P","Q","R","S","T","U","V","W","X","Y","Z">>
LowerChars == <<"a","b","c","d","e","f","g","h","i","j","k","l","m",
                "n","o","p","q","r","s","t","u","v","w","x","y","z">>

\* str.lower() on one character
char_lower(c) ==
    IF \E i \in 1..26 : UpperChars[i] = c
    THEN LowerChars[CHOOSE i \in 1..26 : UpperChars[i] = c]
    ELSE c

\* str.lower()
str_lower(s) == [i \in 1..Len(s) |-> char_lower(s[i])]

\* Python's  sub in s  for strings
str_contains(sub, s) ==
    \E i \in 0..(Len(s) - Len(sub)) : SubSeq(s, i + 1, i + Len(sub)) = sub

\* str.strip() (only the space character occurs in the modelled inputs)
RECURSIVE str_strip(_)
str_strip(s) ==
    IF s = <<>> THEN s
    ELSE IF Head(s) = " " THEN str_strip(Tail(s))
    ELSE IF s[Len(s)] = " " THEN str_strip(SubSeq(s, 1, Len(s) - 1))
    ELSE s

\* dict.get(key, default) on a field that may be absent
dict_get(v, default) == IF v = Missing THEN default ELSE v

-----------------------------------------------------------------------------
(* _calculate_risk_level *)

RiskKeywords == << <<"r","e","m","o","t","e">>,
                   <<"e","x","e","c","u","t","i","o","n">>,
                   <<"b","y","p","a","s","s">>,
                   <<"p","r","i","v","i","l","e","g","e">> >>

\* A plausible slip: the overdue test placed before the ransomware test.
calculate_risk_level_overdue_first(ransomware_use, is_overdue, vuln_name) ==
    IF is_overdue THEN "HIGH"
    ELSE IF ransomware_use = "Known" THEN "CRITICAL"
    ELSE IF \E k \in 1..Len(RiskKeywords) :
                str_contains(RiskKeywords[k], str_lower(vuln_name))
         THEN "HIGH"
    ELSE "MEDIUM"

calculate_risk_level(ransomware_use, is_overdue, vuln_name) ==
    IF ransomware_use = "Known" THEN "CRITICAL"
    ELSE IF is_overdue THEN "HIGH"
    ELSE IF \E k \in 1..Len(RiskKeywords) :
                str_contains(RiskKeywords[k], str_lower(vuln_name))
         THEN "HIGH"
    ELSE "MEDIUM"

-----------------------------------------------------------------------------
(* Raw feed entries and date strings *)

\* A date string is modelled by the strptime format it satisfies and the day
\* it denotes; "empty" is the empty string and "other" any other text.
DateStr(fmt, day) == [fmt |-> fmt, day |-> day]
NoneDate   == [some |-> FALSE, day |-> 0]      \* Optional[datetime] = None
SomeDate(d) == [some |-> TRUE, day |-> d]

\* A JSON string value that may also be null
JStr(s) == [null |-> FALSE, s |-> s]
JNull   == [null |-> TRUE, s |-> <<>>]

RawEntry(id, vendor, name, due, rans) ==
    [cveID |-> id, vendorProject |-> vendor, vulnerabilityName |-> name,
     dueDate |-> due, knownRansomwareCampaignUse |-> rans]

\* The entries a feed may carry: two entries for CVE-1 of differing content
\* (a vendor that needs stripping, a keyword, an overdue date in one format;
\* ransomware-known with a future date in the other format), an entry with
\* no cveID, no ransomware flag and an unparseable date, and an entry with a
\* null vendor, whose transform raises.
RawEntries ==
    { RawEntry("CVE-1", JStr(<<" ","A">>), <<"B","y","p","a","s","s">>,
               DateStr("%Y-%m-%d", -5), "Unknown"),
      RawEntry("CVE-1", JStr(<<"A">>), <<"X","S","S">>,
               DateStr("%m/%d/%Y", 50), "Known"),
      RawEntry(Missing, JStr(<<"A">>), <<"X","S","S">>,
               DateStr("other", 0), Missing),
      RawEntry("CVE-2", JNull, <<"X","S","S">>,
               DateStr("empty", 0), "Unknown") }

\* Sequences over S of length at most n
SeqUpTo(S, n) == UNION { [1..k -> S] : k \in 0..n }

-----------------------------------------------------------------------------
(* transform_data and its helpers *)

parse_date(date_str) ==
    IF date_str.fmt = "empty" THEN NoneDate
    ELSE IF date_str.fmt = "%Y-%m-%d" THEN SomeDate(date_str.day)
    ELSE IF date_str.fmt = "%m/%d/%Y" THEN SomeDate(date_str.day)
    ELSE NoneDate

is_overdue(due_date, now) ==
    IF ~due_date.some THEN FALSE ELSE now > due_date.day

days_until_date(date_obj, now) ==
    IF ~date_obj.some THEN NoneDate ELSE SomeDate(date_obj.day - now)

\* The body of the try block raises: .strip() on a value that is None
transform_raises(kev_record) == kev_record.vendorProject.null

\* The dict built for one record by the body of the try block.  Of the text
\* fields that are copied and stripped alike, vendor_project and
\* vulnerability_name are kept; of the two dates, the due date.
transform_record(kev_record, now) ==
    LET cve_id          == dict_get(kev_record.cveID, "unknown")
        known_ransomware ==
            dict_get(kev_record.knownRansomwareCampaignUse, "Unknown")
        due_date_parsed == parse_date(kev_record.dueDate)
        overdue         == is_overdue(due_date_parsed, now)
    IN  [ original_data        |-> kev_record,
          ingestion_timestamp  |-> now,
          cve_id               |-> cve_id,
          vendor_project       |-> str_strip(kev_record.vendorProject.s),
          vulnerability_name   |-> str_strip(kev_record.vulnerabilityName),
          due_date_parsed      |-> due_date_parsed,
          known_ransomware_use |-> known_ransomware,
          is_overdue           |-> overdue,
          risk_level           |->
              calculate_risk_level(known_ransomware, overdue,
                                   kev_record.vulnerabilityName),
          days_until_due       |-> days_until_date(due_date_parsed, now),
          catalog_version      |-> kev_record.catalog_metadata.catalog_version ]

\* A plausible slip: an entry that raises ends the loop (break for continue).
RECURSIVE transform_data_break_on_error(_, _)
transform_data_break_on_error(raw, now) ==
    IF raw = <<>> THEN <<>>
    ELSE IF transform_raises(Head(raw)) THEN <<>>
    ELSE <<transform_record(Head(raw), now)>>
         \o transform_data_break_on_error(Tail(raw), now)

\* The for loop of transform_data: one record appended per entry whose try
\* body completes, an entry that raises skipped by the except clause.
RECURSIVE transform_data(_, _)
transform_data(raw, now) ==
    IF raw = <<>> THEN <<>>
    ELSE IF transform_raises(Head(raw)) THEN transform_data(Tail(raw), now)
    ELSE <<transform_record(Head(raw), now)>> \o transform_data(Tail(raw), now)

-----------------------------------------------------------------------------
(* extract_data *)

\* What session.get produces: an exception, or a response with a status and
\* a body.  A body is text that is no JSON, a JSON array, or a JSON object
\* whose 'vulnerabilities' and 'catalogVersion' keys may be absent.
CatalogVersions == {"2024.1", Missing}
Feeds == SeqUpTo(RawEntries, MaxFeed)

Body(kind, cv, vulns, has) ==
    [kind |-> kind, catalogVersion |-> cv, vulnerabilities |-> vulns,
     has_vulnerabilities |-> has]

Bodies ==
    { Body("malformed", Missing, <<>>, FALSE),
      Body("array", Missing, <<>>, FALSE) }
    \cup { Body("object", cv, <<>>, FALSE) : cv \in CatalogVersions }
    \cup { Body("object", "2024.1", f, TRUE) : f \in Feeds }

\* A response with a status other than 200 carries text that is no JSON or a
\* complete catalog of one entry; a 200 response carries any body.
OtherBodies ==
    { Body("malformed", Missing, <<>>, FALSE) }
    \cup { Body("object", "2024.1", f, TRUE) : f \in [1..1 -> RawEntries] }

Response(raises, st, b) == [raises |-> raises, status_code |-> st, body |-> b]

Responses ==
    { Response(TRUE, 0, Body("malformed", Missing, <<>>, FALSE)) }
    \cup { Response(FALSE, 200, b) : b \in Bodies }
    \cup { Response(FALSE, st, b) : st \in {204, 300, 429, 500}, b \in OtherBodies }

\* response.raise_for_status(): HTTPError for a 4xx or 5xx status
raise_for_status_raises(response) ==
    response.status_code >= 400 /\ response.status_code < 600

\* Lines 108-129: decode the body and attach the catalog metadata
decode_vulnerabilities(response) ==
    IF response.body.kind # "object" THEN <<>>
    ELSE LET catalog_version == dict_get(response.body.catalogVersion, "unknown")
             vulnerabilities ==
                 IF response.body.has_vulnerabilities
                 THEN response.body.vulnerabilities ELSE <<>>
         IN  [i \in 1..Len(vulnerabilities) |->
                 vulnerabilities[i] @@
                 ("catalog_metadata" :> [catalog_version |-> catalog_version])]

\* extract_data given the responses to its first and (if issued) second GET:
\* the list it returns and the number of GETs it issued.
extract_data(r1, r2) ==
    IF r1.raises THEN [data |-> <<>>, gets |-> 1, slept |-> FALSE]
    ELSE IF r1.status_code = 429
    THEN IF r2.raises \/ raise_for_status_raises(r2)
         THEN [data |-> <<>>, gets |-> 2, slept |-> TRUE]
         ELSE [data |-> decode_vulnerabilities(r2), gets |-> 2, slept |-> TRUE]
    ELSE IF raise_for_status_raises(r1)
         THEN [data |-> <<>>, gets |-> 1, slept |-> FALSE]
         ELSE [data |-> decode_vulnerabilities(r1), gets |-> 1, slept |-> FALSE]

-----------------------------------------------------------------------------
(* load_data *)

IndexKeys == <<"etl_metadata.ingestion_timestamp", "cve_id", "risk_level",
               "known_ransomware_use", "is_overdue", "date_added">>

\* Documents of collection c that match the filter {'cve_id': id}
matching(c, id) == { d \in c : d.doc.cve_id = id }

\* A plausible slip: insert_one in place of the keyed upsert.
replace_one_as_insert(c, oid, record) ==
    [coll |-> c \cup {[oid |-> oid, doc |-> record]}, next_oid |-> oid + 1,
     upserted_id |-> oid, matched_count |-> 0, modified_count |-> 0]

\* A plausible slip: the server reports every matched document as modified.
replace_one_always_modified(c, oid, record) ==
    LET m == matching(c, record.cve_id) IN
    IF m # {}
    THEN LET d == CHOOSE d \in m : \A o \in m : d.oid <= o.oid
         IN  [coll |-> (c \ {d}) \cup {[oid |-> d.oid, doc |-> record]},
              next_oid |-> oid, upserted_id |-> NoOid,
              matched_count |-> 1, modified_count |-> 1]
    ELSE [coll |-> c \cup {[oid |-> oid, doc |-> record]},
          next_oid |-> oid + 1, upserted_id |-> oid,
          matched_count |-> 0, modified_count |-> 0]

\* collection.replace_one({'cve_id': record['cve_id']}, record, upsert=True):
\* the first matching document is replaced (its _id kept) and counts as
\* modified only if its content changes; with no match the record is inserted
\* under a fresh _id.
replace_one(c, oid, record) ==
    LET m == matching(c, record.cve_id) IN
    IF m # {}
    THEN LET d == CHOOSE d \in m : \A o \in m : d.oid <= o.oid
         IN  [coll |-> (c \ {d}) \cup {[oid |-> d.oid, doc |-> record]},
              next_oid |-> oid, upserted_id |-> NoOid,
              matched_count |-> 1,
              modified_count |-> IF d.doc = record THEN 0 ELSE 1]
    ELSE [coll |-> c \cup {[oid |-> oid, doc |-> record]},
          next_oid |-> oid + 1, upserted_id |-> oid,
          matched_count |-> 0, modified_count |-> 0]

\* A plausible slip: a failing write ends the loop (break for continue).
RECURSIVE load_loop_break_on_failure(_, _, _, _)
load_loop_break_on_failure(st, batch, i, fail_at) ==
    IF i > Len(batch) \/ i \in fail_at THEN st
    ELSE LET result == replace_one(st.coll, st.next_oid, batch[i])
             outcome == IF result.upserted_id # NoOid THEN "inserted"
                        ELSE IF result.modified_count > 0 THEN "updated"
                        ELSE "unchanged"
         IN  load_loop_break_on_failure(
                 [coll |-> result.coll, next_oid |-> result.next_oid,
                  inserted_count |-> st.inserted_count +
                      (IF result.upserted_id # NoOid THEN 1 ELSE 0),
                  updated_count |-> st.updated_count +
                      (IF result.upserted_id = NoOid
                          /\ result.modified_count > 0 THEN 1 ELSE 0),
                  results |-> Append(st.results, outcome)],
                 batch, i + 1, fail_at)

\* The for loop of load_data from position i on; fail_at is the set of
\* positions whose replace_one raises.  st carries the collection, the next
\* _id, the two counters and, per record, what became of it.
RECURSIVE load_loop(_, _, _, _)
load_loop(st, batch, i, fail_at) ==
    IF i > Len(batch) THEN st
    ELSE IF i \in fail_at
    THEN load_loop([st EXCEPT !.results = Append(@, "failed")],
                   batch, i + 1, fail_at)
    ELSE LET result == replace_one(st.coll, st.next_oid, batch[i])
             outcome == IF result.upserted_id # NoOid THEN "inserted"
                        ELSE IF result.modified_count > 0 THEN "updated"
                        ELSE "unchanged"
         IN  load_loop([coll |-> result.coll, next_oid |-> result.next_oid,
                        inserted_count |-> st.inserted_count +
                            (IF result.upserted_id # NoOid THEN 1 ELSE 0),
                        updated_count |-> st.updated_count +
                            (IF result.upserted_id = NoOid
                                /\ result.modified_count > 0 THEN 1 ELSE 0),
                        results |-> Append(st.results, outcome)],
                       batch, i + 1, fail_at)

\* load_data(transformed_data).  index_fail = 0: every create_index succeeds;
\* index_fail = k: the k-th create_index raises.
load_data(c, idx, oid, batch, index_fail, fail_at) ==
    LET st0 == [coll |-> c, next_oid |-> oid, inserted_count |-> 0,
                updated_count |-> 0, results |-> <<>>]
    IN
    IF batch = <<>>
    THEN [ok |-> TRUE, coll |-> c, indexes |-> idx, next_oid |-> oid,
          inserted_count |-> 0, updated_count |-> 0, results |-> <<>>,
          index_calls |-> 0]
    ELSE IF index_fail # 0
    THEN [ok |-> FALSE, coll |-> c,
          indexes |-> idx \cup { IndexKeys[k] : k \in 1..(index_fail - 1) },
          next_oid |-> oid, inserted_count |-> 0, updated_count |-> 0,
          results |-> <<>>, index_calls |-> index_fail]
    ELSE LET st == load_loop(st0, batch, 1, fail_at)
         IN  [ok |-> TRUE, coll |-> st.coll,
              indexes |-> idx \cup { IndexKeys[k] : k \in 1..Len(IndexKeys) },
              next_oid |-> st.next_oid,
              inserted_count |-> st.inserted_count,
              updated_count |-> st.updated_count,
              results |-> st.results, index_calls |-> Len(IndexKeys)]

-----------------------------------------------------------------------------
(* Initial state: a freshly constructed connector, an empty collection *)

NoLoad == [called |-> FALSE, batch |-> <<>>, index_fail |-> 0, fail_at |-> {},
           before |-> {}, idx_before |-> {}, ok |-> TRUE, inserted_count |-> 0, updated_count |-> 0,
           results |-> <<>>, index_calls |-> 0]

\* Inputs of _calculate_risk_level.  Each name carries whether it contains,
\* case-insensitively, one of the four keywords (worked out by hand).
RansomwareFlags == {"Known", "Unknown", "known"}
RiskNames ==
    { [s |-> <<"R","e","m","o","t","e">>,                     keyword |-> TRUE],
      [s |-> <<"C","o","d","e"," ","E","X","E","C","U","T","I","O","N">>,
                                                              keyword |-> TRUE],
      [s |-> <<"b","y","p","a","s","s">>,                     keyword |-> TRUE],
      [s |-> <<"x","P","r","i","v","i","l","e","g","e","s">>, keyword |-> TRUE],
      [s |-> <<"X","S","S">>,                                 keyword |-> FALSE],
      [s |-> <<>>,                                            keyword |-> FALSE],
      [s |-> <<"r","e","m","o","t">>,                         keyword |-> FALSE],
      [s |-> <<"E","x","e","c">>,                             keyword |-> FALSE],
      [s |-> <<"b","y"," ","p","a","s","s">>,                 keyword |-> FALSE],
      [s |-> <<"p","r","i","v","i","l","e","g">>,             keyword |-> FALSE] }

NoRisk == [ransomware_use |-> "Unknown", is_overdue |-> FALSE,
           name |-> [s |-> <<>>, keyword |-> FALSE], result |-> "none"]

Init ==
    /\ coll = {}
    /\ indexes = {}
    /\ next_oid = 1
    /\ pc = "connect"
    /\ run = 1
    /\ clock = 0
    /\ mongo_client = "None"
    /\ collection = FALSE
    /\ session = "open"
    /\ raw_data = <<>>
    /\ transformed_data = <<>>
    /\ success = FALSE
    /\ exit_code = NoExit
    /\ trace = <<>>
    /\ http = <<>>
    /\ coll_at_start = {}
    /\ idx_at_start = {}
    /\ last = NoLoad
    /\ repeat = FALSE
    /\ rk = NoRisk

-----------------------------------------------------------------------------
(* One load_data call on the collection *)

Repeated(x, n) == [i \in 1..n |-> x]

\* The sets of positions whose write may fail: any, when the loop is reached
FailSets(batch, index_fail) ==
    IF index_fail = 0 THEN SUBSET (1..Len(batch)) ELSE {{}}

CleanLoad(l) == l.ok /\ \A i \in 1..Len(l.results) : l.results[i] # "failed"

\* load_data(batch) runs to completion: the store takes its writes, and the
\* call is recorded in last.  repeat becomes true when this call was given
\* the batch of the call before it, that call succeeded with no write failure
\* and this one has no write failure either.
ApplyLoad(batch, index_fail, fail_at) ==
    LET r == load_data(coll, indexes, next_oid, batch, index_fail, fail_at) IN
    /\ coll' = r.coll
    /\ indexes' = r.indexes
    /\ next_oid' = r.next_oid
    /\ last' = [called |-> TRUE, batch |-> batch, index_fail |-> index_fail,
                fail_at |-> fail_at,
                before |-> coll, idx_before |-> indexes, ok |-> r.ok,
                inserted_count |-> r.inserted_count,
                updated_count |-> r.updated_count,
                results |-> r.results, index_calls |-> r.index_calls]
    /\ repeat' = ( /\ last.called
                   /\ last.batch = batch
                   /\ CleanLoad(last)
                   /\ \A i \in 1..Len(r.results) : r.results[i] # "failed" )

-----------------------------------------------------------------------------
(* The process: main and run_etl_pipeline *)

\* connect_to_mongodb, called first by run_etl_pipeline.  The outcomes:
\*   "ok"                 ping answered;
\*   "connection_failure" ping raised ConnectionFailure (caught: returns False);
\*   "client_error"       MongoClient(...) raised another exception;
\*   "ping_error"         ping raised another exception.
\* The last two leave connect_to_mongodb and are caught by run_etl_pipeline.
ConnectOutcomes == {"ok", "connection_failure", "client_error", "ping_error"}

\* A plausible slip: the result of connect_to_mongodb is not looked at.
after_connect_unchecked(outcome) == "extract"

\* Step 1 of run_etl_pipeline: where it goes after connect_to_mongodb
after_connect(outcome) == IF outcome = "ok" THEN "extract" ELSE "returned"

\* A plausible slip: an empty fetch does not stop the pipeline.
after_extract_unchecked(data) == "transform"

\* Step 2: where it goes after extract_data returned data
after_extract(data) == IF data = <<>> THEN "returned" ELSE "transform"

\* Step 3: where it goes after transform_data returned data
after_transform(data) == IF data = <<>> THEN "returned" ELSE "load"

\* A plausible slip: main exits 0 whatever run_etl_pipeline returned.
exit_code_always_zero(ok) == 0

\* main: the argument of sys.exit
exit_code_of(ok) == IF ok THEN 0 ELSE 1

\* What the model keeps of a response
Summary(r) == [raises |-> r.raises, status_code |-> r.status_code,
               kind |-> r.body.kind,
               n |-> IF r.body.has_vulnerabilities
                     THEN Len(r.body.vulnerabilities) ELSE 0]

ConnectToMongodb ==
    /\ pc = "connect"
    /\ \E outcome \in ConnectOutcomes :
         /\ mongo_client' = IF outcome = "client_error" THEN "None" ELSE "open"
         /\ collection' = (outcome = "ok")
         /\ trace' = trace \o <<"connect">> \o
                     (IF outcome = "client_error" THEN <<>> ELSE <<"ping">>)
         /\ pc' = after_connect(outcome)
         /\ success' = FALSE
    /\ UNCHANGED <<storeVars, run, clock, session, raw_data, transformed_data,
                   exit_code, http, coll_at_start, idx_at_start, last, repeat,
                   rk>>

ExtractData ==
    /\ pc = "extract"
    /\ \E r1 \in Responses :
       \E r2 \in (IF ~r1.raises /\ r1.status_code = 429 THEN Responses ELSE {r1}) :
         LET res == extract_data(r1, r2) IN
         /\ raw_data' = res.data
         /\ trace' = trace \o <<"extract">> \o
                     (IF res.slept THEN <<"get", "sleep", "get">> ELSE <<"get">>)
         /\ http' = IF res.gets = 2 THEN <<Summary(r1), Summary(r2)>>
                     ELSE <<Summary(r1)>>
         /\ pc' = after_extract(res.data)
    /\ success' = FALSE
    /\ UNCHANGED <<storeVars, run, clock, mongo_client, collection, session,
                   transformed_data, exit_code, coll_at_start, idx_at_start,
                   last, repeat, rk>>

TransformData ==
    /\ pc = "transform"
    /\ transformed_data' = transform_data(raw_data, clock)
    /\ trace' = Append(trace, "transform")
    /\ pc' = after_transform(transformed_data')
    /\ success' = FALSE
    /\ UNCHANGED <<storeVars, run, clock, mongo_client, collection, session,
                   raw_data, exit_code, http, coll_at_start, idx_at_start,
                   last, repeat, rk>>

\* Step 4 of run_etl_pipeline and its return: True iff load_data returned True
LoadData ==
    /\ pc = "load"
    /\ \E index_fail \in 0..Len(IndexKeys) :
       \E fail_at \in FailSets(transformed_data, index_fail) :
         /\ ApplyLoad(transformed_data, index_fail, fail_at)
         /\ trace' = trace \o <<"load">>
                     \o Repeated("create_index", last'.index_calls)
                     \o Repeated("replace_one", Len(last'.results))
         /\ success' = last'.ok
    /\ pc' = "returned"
    /\ UNCHANGED <<run, clock, mongo_client, collection, session, raw_data,
                   transformed_data, exit_code, http, coll_at_start,
                   idx_at_start, rk>>

\* main after run_etl_pipeline returned: on success query the statistics
\* (get_pipeline_stats swallows its own exceptions) and sys.exit(0), otherwise
\* sys.exit(1).  SystemExit then leaves the try block.
MainExit ==
    /\ pc = "returned"
    /\ exit_code' = exit_code_of(success)
    /\ trace' = IF success /\ collection THEN Append(trace, "stats") ELSE trace
    /\ pc' = "finally"
    /\ UNCHANGED <<storeVars, run, clock, mongo_client, collection, session,
                   raw_data, transformed_data, success, http, coll_at_start,
                   idx_at_start, last, repeat, rk>>

\* A plausible slip: the connections are closed on the success path only.
CleanupOnSuccessOnly ==
    /\ pc = "finally"
    /\ mongo_client' = IF success /\ mongo_client # "None"
                       THEN "closed" ELSE mongo_client
    /\ session' = IF success THEN "closed" ELSE session
    /\ trace' = IF success THEN trace \o <<"client_close", "session_close">>
                 ELSE trace
    /\ pc' = "exited"
    /\ UNCHANGED <<storeVars, run, clock, collection, raw_data,
                   transformed_data, success, exit_code, http, coll_at_start,
                   idx_at_start, last, repeat, rk>>

\* The finally block of main
Cleanup ==
    /\ pc = "finally"
    /\ mongo_client' = IF mongo_client = "None" THEN "None" ELSE "closed"
    /\ session' = "closed"
    /\ trace' = trace
                \o (IF mongo_client = "None" THEN <<>> ELSE <<"client_close">>)
                \o <<"session_close">>
    /\ pc' = "exited"
    /\ UNCHANGED <<storeVars, run, clock, collection, raw_data,
                   transformed_data, success, exit_code, http, coll_at_start,
                   idx_at_start, last, repeat, rk>>

\* The program is started again later: a new connector (__init__), the same
\* database.
NewProcess ==
    /\ pc = "exited"
    /\ run < MaxRuns
    /\ run' = run + 1
    /\ clock' = clock + 1
    /\ pc' = "connect"
    /\ mongo_client' = "None"
    /\ collection' = FALSE
    /\ session' = "open"
    /\ raw_data' = <<>>
    /\ transformed_data' = <<>>
    /\ success' = FALSE
    /\ exit_code' = NoExit
    /\ trace' = <<>>
    /\ http' = <<>>
    /\ coll_at_start' = coll
    /\ idx_at_start' = indexes
    /\ last' = NoLoad
    /\ repeat' = FALSE
    /\ UNCHANGED <<storeVars, rk>>

Next ==
    \/ ConnectToMongodb
    \/ ExtractData
    \/ TransformData
    \/ LoadData
    \/ MainExit
    \/ Cleanup
    \/ NewProcess

Spec == Init /\ [][Next]_vars

\* The steps of one run of the process, from the constructed connector to
\* its exit
NextRun ==
    \/ ConnectToMongodb
    \/ ExtractData
    \/ TransformData
    \/ LoadData
    \/ MainExit
    \/ Cleanup

-----------------------------------------------------------------------------
(* Sequences of load_data calls *)

\* The records a batch may hold: what transform_data makes of the entries
\* that transform, as extract_data hands them over.
LoadRecords ==
    { transform_record(e @@ ("catalog_metadata" :> [catalog_version |-> "2024.1"]), 0) :
         e \in { x \in RawEntries : ~transform_raises(x) } }

LoadDataCall ==
    \E batch \in SeqUpTo(LoadRecords, MaxBatch) :
    \E index_fail \in 0..Len(IndexKeys) :
    \E fail_at \in FailSets(batch, index_fail) :
        /\ ApplyLoad(batch, index_fail, fail_at)
        /\ UNCHANGED <<procVars, rk>>

NextLoad == LoadDataCall

SpecLoad == Init /\ [][NextLoad]_vars

\* One run of the process on an empty collection
SpecRun == Init /\ [][NextRun]_vars

-----------------------------------------------------------------------------
(* _calculate_risk_level on enumerated inputs *)

InitRisk ==
    /\ coll = {}
    /\ indexes = {}
    /\ next_oid = 1
    /\ pc = "connect"
    /\ run = 1
    /\ clock = 0
    /\ mongo_client = "None"
    /\ collection = FALSE
    /\ session = "open"
    /\ raw_data = <<>>
    /\ transformed_data = <<>>
    /\ success = FALSE
    /\ exit_code = NoExit
    /\ trace = <<>>
    /\ http = <<>>
    /\ coll_at_start = {}
    /\ idx_at_start = {}
    /\ last = NoLoad
    /\ repeat = FALSE
    /\ rk \in [ransomware_use : RansomwareFlags, is_overdue : BOOLEAN,
               name : RiskNames, result : {"none"}]

CalculateRiskLevel ==
    /\ rk.result = "none"
    /\ rk' = [rk EXCEPT !.result =
                 calculate_risk_level(rk.ransomware_use, rk.is_overdue, rk.name.s)]
    /\ UNCHANGED <<storeVars, procVars, last, repeat>>

NextRisk == CalculateRiskLevel

SpecRisk == InitRisk /\ [][NextRisk]_vars

-----------------------------------------------------------------------------
(* Helpers of the properties *)

InTrace(e) == \E i \in 1..Len(trace) : trace[i] = e

Positions(e) == { i \in 1..Len(trace) : trace[i] = e }

SetMax(S) == CHOOSE x \in S : \A y \in S : y <= x

\* The non-failed positions of the last batch before i that carry the
\* identifier of position i
EarlierWrites(i) ==
    { j \in 1..(i - 1) : /\ last.batch[j].cve_id = last.batch[i].cve_id
                         /\ last.results[j] # "failed" }

\* No document with the identifier of position i is stored when its turn comes
AbsentAt(i) ==
    /\ EarlierWrites(i) = {}
    /\ \A d \in last.before : d.doc.cve_id # last.batch[i].cve_id

\* The content stored under the identifier of position i when its turn comes
\* (only used where ~AbsentAt(i))
StoredAt(i) ==
    IF EarlierWrites(i) # {} THEN last.batch[SetMax(EarlierWrites(i))]
    ELSE (CHOOSE d \in last.before : d.doc.cve_id = last.batch[i].cve_id).doc

CountOf(outcome) ==
    Cardinality({ i \in 1..Len(last.results) : last.results[i] = outcome })

AllExisting ==
    /\ last.called /\ last.ok /\ last.batch # <<>>
    /\ \A i \in 1..Len(last.batch) :
          \E d \in last.before : d.doc.cve_id = last.batch[i].cve_id

-----------------------------------------------------------------------------
(* The claims *)

\* C1: after any sequence of load_data calls from an empty collection, no two
\* stored documents carry the same cve_id.
C1_UniqueIdentifier ==
    \A d1 \in coll : \A d2 \in coll :
        d1.doc.cve_id = d2.doc.cve_id => d1 = d2

\* C1 witness: a batch that names one identifier twice with differing content
\* was loaded into a collection that already held that identifier and the
\* document of a record whose identifier defaulted to 'unknown'.
C1_Witness ==
    /\ last.called /\ last.ok
    /\ Len(last.batch) = 2
    /\ last.batch[1].cve_id = last.batch[2].cve_id
    /\ last.batch[1] # last.batch[2]
    /\ last.results = <<"updated", "updated">>
    /\ \E d \in coll : d.doc.cve_id = "unknown"
    /\ Cardinality(coll) = 2

\* C2: _calculate_risk_level is first-match-wins: 'Known' gives CRITICAL
\* whatever the rest; otherwise overdue gives HIGH; otherwise a keyword in the
\* name (any letter case) gives HIGH; otherwise MEDIUM; nothing else comes out.
C2_RiskPrecedence ==
    rk.result # "none" =>
        /\ rk.result \in {"CRITICAL", "HIGH", "MEDIUM"}
        /\ rk.ransomware_use = "Known" => rk.result = "CRITICAL"
        /\ rk.ransomware_use # "Known" /\ rk.is_overdue => rk.result = "HIGH"
        /\ rk.ransomware_use # "Known" /\ ~rk.is_overdue /\ rk.name.keyword
              => rk.result = "HIGH"
        /\ rk.ransomware_use # "Known" /\ ~rk.is_overdue /\ ~rk.name.keyword
              => rk.result = "MEDIUM"

\* C2 witness: a ransomware-known, overdue record with a keyword in upper
\* case came out CRITICAL.
C2_Witness ==
    /\ rk.result = "CRITICAL"
    /\ rk.is_overdue
    /\ rk.name.keyword
    /\ rk.name.s # str_lower(rk.name.s)

\* C3: once extract_data has returned an empty list, the run ends in failure
\* and has created no index and written no document: the collection is as it
\* was when the run started.
C3_EmptyFetchNoWrites ==
    (InTrace("extract") /\ raw_data = <<>>) =>
        /\ pc \in {"returned", "finally", "exited"}
        /\ ~success
        /\ exit_code # 0
        /\ coll = coll_at_start
        /\ indexes = idx_at_start
        /\ ~InTrace("transform") /\ ~InTrace("load")
        /\ ~InTrace("create_index") /\ ~InTrace("replace_one")

\* C3 witness: a second run against a collection filled by the first got an
\* empty fetch from a 200 response and has exited.
C3_Witness ==
    /\ run = 2 /\ pc = "exited"
    /\ coll # {}
    /\ InTrace("extract") /\ raw_data = <<>>
    /\ http[Len(http)].status_code = 200 /\ ~http[Len(http)].raises

\* C4: a load_data call that repeats the batch of the call before it, neither
\* with a failing write, leaves the collection as that first call left it.
C4_LoadIdempotent ==
    repeat => coll = last.before

\* C4 witness: a two-record batch with two identifiers was loaded twice.
C4_Witness ==
    /\ repeat /\ last.ok
    /\ Len(last.batch) = 2
    /\ last.batch[1].cve_id # last.batch[2].cve_id
    /\ Cardinality(coll) = 2

\* C5 as claimed: a load of N records whose identifiers all exist, with no
\* failing write, counts zero inserts and N updates.
C5_AsClaimed ==
    (AllExisting /\ CountOf("failed") = 0) =>
        /\ last.inserted_count = 0
        /\ last.updated_count = Len(last.batch)

\* C5 amended: load_data counts as inserted exactly the writes on an absent
\* identifier and as updated exactly the writes that changed the content
\* stored under an existing identifier; a write that leaves the stored
\* document as it is, or that fails, is counted as neither.  So a batch whose
\* identifiers all exist counts zero inserts and at most N updates.
C5_CountsByModification ==
    (last.called /\ last.ok /\ last.batch # <<>>) =>
        /\ Len(last.results) = Len(last.batch)
        /\ \A i \in 1..Len(last.batch) :
              last.results[i] # "failed" =>
                  last.results[i] =
                      IF AbsentAt(i) THEN "inserted"
                      ELSE IF StoredAt(i) # last.batch[i] THEN "updated"
                      ELSE "unchanged"
        /\ last.inserted_count = CountOf("inserted")
        /\ last.updated_count = CountOf("updated")
        /\ AllExisting =>
              /\ last.inserted_count = 0
              /\ last.updated_count = Len(last.batch) - CountOf("unchanged")
                                          - CountOf("failed")

\* C5 witness: of two records on existing identifiers one equals the stored
\* document and one differs from it: one update is counted.
C5_Witness ==
    /\ AllExisting
    /\ Len(last.batch) = 2
    /\ last.results = <<"unchanged", "updated">>
    /\ last.inserted_count = 0
    /\ last.updated_count = 1

\* Position of the process along a run
Rank(p) ==
    CASE p = "connect"   -> 0
      [] p = "extract"   -> 1
      [] p = "transform" -> 2
      [] p = "load"      -> 3
      [] p = "returned"  -> 4
      [] p = "finally"   -> 5
      [] p = "exited"    -> 6

\* C6: on every path of a run the HTTP session and, if it was opened, the
\* store connection are released when the process has exited; no store or
\* HTTP operation follows a release.  Every run does reach its exit: a
\* process that has not exited can always take a step, and each step of a run
\* moves it forward.
C6_ReleasedOnEveryPath ==
    /\ [](pc = "exited" =>
             /\ session = "closed" /\ InTrace("session_close")
             /\ mongo_client # "open"
             /\ InTrace("ping") => InTrace("client_close"))
    /\ [](\A i \in Positions("client_close") \cup Positions("session_close") :
             \A j \in (i + 1)..Len(trace) :
                 trace[j] \notin {"ping", "get", "create_index",
                                  "replace_one", "stats"})
    /\ [](session = "closed" \/ mongo_client = "closed" => pc = "exited")
    /\ [](/\ pc = "connect"   => ENABLED ConnectToMongodb
          /\ pc = "extract"   => ENABLED ExtractData
          /\ pc = "transform" => ENABLED TransformData
          /\ pc = "load"      => ENABLED LoadData
          /\ pc = "returned"  => ENABLED MainExit
          /\ pc = "finally"   => ENABLED Cleanup
          /\ Rank(pc) \in 0..6)
    /\ [][run' = run => Rank(pc') > Rank(pc)]_vars

\* C6 witness: a run whose connect raised after the client was constructed
\* has exited with the client and the session closed.
C6_Witness ==
    /\ pc = "exited"
    /\ InTrace("ping") /\ ~collection
    /\ mongo_client = "closed" /\ session = "closed"
    /\ exit_code = 1

StageNames == <<"connect", "extract", "transform", "load">>

StagesOf(t) == SelectSeq(t, LAMBDA e : \E k \in 1..4 : StageNames[k] = e)

\* C7: the stages of a run occur in the order connect, fetch, transform,
\* load, each at most once; a GET is only issued after a successful connect,
\* transform only runs on a non-empty fetch, load only on a non-empty
\* transform, and the store is only written by load.
C7_StageOrder ==
    /\ \E k \in 0..4 : StagesOf(trace) = SubSeq(StageNames, 1, k)
    /\ InTrace("extract") \/ InTrace("get") => collection /\ InTrace("ping")
    /\ \A i \in Positions("get") :
          /\ \E j \in Positions("extract") : j < i
          /\ \A j \in Positions("transform") \cup Positions("load") : i < j
    /\ InTrace("transform") => raw_data # <<>>
    /\ InTrace("load") => transformed_data # <<>>
    /\ \A i \in Positions("create_index") \cup Positions("replace_one") :
          \E j \in Positions("load") : j < i

\* C7 witness: a run went through all four stages and exited with code 0.
C7_Witness ==
    /\ pc = "exited"
    /\ StagesOf(trace) = StageNames
    /\ exit_code = 0

\* C8 as claimed: extract_data issues one GET, and a second one exactly when
\* the first response has status 429 (after sleeping); never a third; and it
\* returns an empty list when the request raises, the body is no JSON or the
\* final response has a status outside 200..299.
C8_AsClaimed ==
    InTrace("extract") =>
        LET final == http[Len(http)] IN
        /\ Cardinality(Positions("get")) = Len(http)
        /\ Len(http) \in {1, 2}
        /\ Len(http) = 2 <=> (~http[1].raises /\ http[1].status_code = 429)
        /\ Len(http) = 2 <=> InTrace("sleep")
        /\ \A i \in Positions("sleep") :
              i > 1 /\ i < Len(trace) /\ trace[i - 1] = "get" /\ trace[i + 1] = "get"
        /\ (final.raises \/ final.kind = "malformed"
              \/ final.status_code \notin 200..299) => raw_data = <<>>

\* What the code does hold to: the GET count as claimed, and an empty list
\* when the request raises, the body is no JSON object or the final response
\* has a 4xx or 5xx status.
ExtractOnErrorStatus ==
    InTrace("extract") =>
        LET final == http[Len(http)] IN
        /\ Cardinality(Positions("get")) = Len(http)
        /\ Len(http) \in {1, 2}
        /\ Len(http) = 2 <=> (~http[1].raises /\ http[1].status_code = 429)
        /\ Len(http) = 2 <=> InTrace("sleep")
        /\ (final.raises \/ final.kind # "object"
              \/ final.status_code \in 400..599) => raw_data = <<>>
        /\ raw_data # <<>> => Len(raw_data) = final.n

\* C9: the process exits with 0 when connect, fetch, transform and load all
\* succeeded and with 1 in every other case.
C9_ExitCode ==
    pc \in {"finally", "exited"} =>
        LET connected   == collection
            fetched     == raw_data # <<>>
            transformed == transformed_data # <<>>
            loaded      == last.called /\ last.ok
        IN  /\ exit_code \in {0, 1}
            /\ exit_code = 0 <=> (connected /\ fetched /\ transformed /\ loaded)
            /\ exit_code = 0 => InTrace("stats")

\* C9 witness: a run whose load stage failed on index creation exited with 1.
C9_Witness ==
    /\ pc = "exited"
    /\ last.called /\ ~last.ok
    /\ exit_code = 1

\* The positions of the last batch from i on that carry the identifier of
\* position i and whose write did not fail
LaterWrites(i) ==
    { j \in i..Len(last.batch) : /\ last.batch[j].cve_id = last.batch[i].cve_id
                                 /\ j \notin last.fail_at }

\* C10: with no index failure load_data returns True whatever writes fail, a
\* failing write touches nothing, and every record whose write did not fail
\* is upserted (the last such record of an identifier is what is stored under
\* it); an index failure makes load_data return False with no record written.
C10_FailureHandling ==
    (last.called /\ last.batch # <<>>) =>
        /\ last.ok <=> last.index_fail = 0
        /\ last.index_fail # 0 => coll = last.before /\ last.results = <<>>
        /\ last.index_fail = 0 =>
              /\ Len(last.results) = Len(last.batch)
              /\ \A i \in 1..Len(last.batch) :
                    /\ last.results[i] = "failed" <=> i \in last.fail_at
                    /\ i \notin last.fail_at =>
                          \E d \in coll :
                              d.doc = last.batch[SetMax(LaterWrites(i))]
              /\ \A d \in last.before :
                    d \in coll \/ \E i \in 1..Len(last.batch) :
                                     /\ i \notin last.fail_at
                                     /\ last.batch[i].cve_id = d.doc.cve_id
              /\ \A d \in coll :
                    d \in last.before \/ \E i \in 1..Len(last.batch) :
                                            /\ i \notin last.fail_at
                                            /\ last.batch[i] = d.doc

\* C10 witness: the first write of a two-record batch failed, the second
\* inserted its record, and load_data returned True.
C10_Witness ==
    /\ last.called /\ last.ok
    /\ Len(last.batch) = 2
    /\ last.fail_at = {1}
    /\ last.results = <<"failed", "inserted">>
    /\ \E d \in coll : d.doc = last.batch[2]
    /\ \A d \in coll : d.doc # last.batch[1]

-----------------------------------------------------------------------------
(* transform_data on enumerated lists *)

\* The lists transform_data may be handed: entries as extract_data returns
\* them (each with its catalog metadata), the empty list included.
TransformInputs ==
    SeqUpTo({ e @@ ("catalog_metadata" :> [catalog_version |-> "2024.1"]) :
                 e \in RawEntries }, MaxRaw)

\* A constructed connector about to call transform_data(raw_data)
InitTransform ==
    /\ coll = {}
    /\ indexes = {}
    /\ next_oid = 1
    /\ pc = "transform"
    /\ run = 1
    /\ clock = 0
    /\ mongo_client = "None"
    /\ collection = FALSE
    /\ session = "open"
    /\ raw_data \in TransformInputs
    /\ transformed_data = <<>>
    /\ success = FALSE
    /\ exit_code = NoExit
    /\ trace = <<>>
    /\ http = <<>>
    /\ coll_at_start = {}
    /\ idx_at_start = {}
    /\ last = NoLoad
    /\ repeat = FALSE
    /\ rk = NoRisk

NextTransform == TransformData

SpecTransform == InitTransform /\ [][NextTransform]_vars

\* The positions of raw_data whose entry transforms without raising (its
\* vendorProject is a string, so .strip() is defined on it)
KeptPositions == { i \in 1..Len(raw_data) : ~raw_data[i].vendorProject.null }

\* The k-th smallest member of a set of positions
Nth(S, k) == CHOOSE i \in S : Cardinality({ j \in S : j <= i }) = k

\* C11: the output of transform_data holds one record per input entry whose
\* own transform did not raise, in the order of the input: its k-th record
\* is made from the k-th such entry and carries that entry's cveID ('unknown'
\* when the entry has none); entries that raise are left out wherever they
\* stand, and the entries after them are still transformed.
C11_OrderPreserving ==
    InTrace("transform") =>
        /\ Len(transformed_data) = Cardinality(KeptPositions)
        /\ \A k \in 1..Len(transformed_data) :
              LET e == raw_data[Nth(KeptPositions, k)] IN
              /\ transformed_data[k].original_data = e
              /\ transformed_data[k].cve_id =
                    (IF e.cveID = Missing THEN "unknown" ELSE e.cveID)

\* C11 witness: of three entries the middle one raised; the output holds the
\* first and the third, in that order, under differing identifiers.
C11_Witness ==
    /\ InTrace("transform")
    /\ Len(raw_data) = 3
    /\ KeptPositions = {1, 3}
    /\ Len(transformed_data) = 2
    /\ transformed_data[1].cve_id = "CVE-1"
    /\ transformed_data[2].cve_id = "unknown"

====
